---- MODULE Spec2Model ----
(***************************************************************************)
(* Model of src/src/scraper.py: the paginated listing scraper.             *)
(*                                                                         *)
(* The browser session is the environment.  Every call into it            *)
(* (execute_script, get_attribute, click, send_keys, get, quit) may       *)
(* return any value of its result type or raise; the model draws each     *)
(* answer with \E at the step that makes the call.                        *)
(*                                                                         *)
(* Python values:                                                          *)
(*   str            a TLA+ string                                          *)
(*   None (str)     the definition None                                    *)
(*   Optional[int]  a set: {} is None, {k} is the integer k                *)
(*   DOM text       [null, pad, s]: null = attribute absent, pad = the     *)
(*                  text carries leading/trailing whitespace, s = the text *)
(*                  without that whitespace                                *)
(*   DOM href       [null, pad, origin, path]: origin is "" for a          *)
(*                  relative reference                                     *)
(* Time is in tenths of a second.                                          *)
(***************************************************************************)
EXTENDS Integers, Sequences, FiniteSets, TLC

(* ------------------------------ bounds --------------------------------- *)
\* cards rendered on one page
MaxCards == 2
\* highest page number the run is followed to
MaxPage == 2
\* polls one wait can make before its timeout elapses
MaxPolls == 2

(* ------------------------------ config --------------------------------- *)
URL == [origin |-> "https://purchasing.alberta.ca", path |-> "/search"]
WAIT_TIMEOUT == 350
BASE_RATE_LIMIT == 7
MAX_RETRIES_PER_PAGE == 5
\* attempt * 1.2 in the backoff sleep of goto_page
BackoffStep == 12
\* attempt * 5 in the wait timeout of goto_page
TimeoutStep == 50

None == "<None>"
NoneInt == {}
Some(k) == {k}
\* Python truthiness of an Optional[int]: None and 0 are falsy
Truthy(opt) == opt # {} /\ opt # {0}
ValueOf(opt) == CHOOSE k \in opt : TRUE

\* configurations the run is started with
StartPageChoices == {1, 2}
EndPageChoices == {NoneInt, Some(1), Some(2)}
PerPageMaxChoices == {NoneInt, Some(1)}
LongPauseChoices == {1, 25}
\* the caps parse_current_page is called with on its own
CapChoices == {NoneInt} \cup {Some(k) : k \in 0..MaxCards}

(* ----------------------------- DOM values ------------------------------ *)
NullText == [null |-> TRUE, pad |-> FALSE, s |-> ""]
Text(s) == [null |-> FALSE, pad |-> FALSE, s |-> s]
PaddedText(s) == [null |-> FALSE, pad |-> TRUE, s |-> s]
NullHref == [null |-> TRUE, pad |-> FALSE, origin |-> "", path |-> ""]
RelHref(p) == [null |-> FALSE, pad |-> FALSE, origin |-> "", path |-> p]
AbsHref(o, p) == [null |-> FALSE, pad |-> TRUE, origin |-> o, path |-> p]

\* (x or "").strip() on a text attribute
StripText(x) == IF x.null THEN "" ELSE x.s
\* (x or "").strip() on a href attribute: the reference without whitespace
StripHref(x) == IF x.null THEN [origin |-> "", path |-> ""]
                ELSE [origin |-> x.origin, path |-> x.path]
\* the Python string of a reference
UrlStr(u) == u.origin \o u.path
\* urljoin(base, ref): a reference with its own origin is kept, a rooted
\* path replaces the path of the base
urljoin(base, ref) ==
    IF ref.origin # "" THEN UrlStr(ref)
    ELSE IF ref.path = "" THEN UrlStr(base)
    ELSE base.origin \o ref.path

\* where reading a card raises: "none", "link" (the link lookup), "title",
\* "href", "desc_el" (the description lookup), "desc" (its innerText)
Card(link, title, href, descEl, desc, fail) ==
    [link |-> link, title |-> title, href |-> href,
     descEl |-> descEl, desc |-> desc, fail |-> fail]

NoLinkCard == Card(FALSE, NullText, NullHref, FALSE, NullText, "none")
EmptyHrefCard == Card(TRUE, Text("Untitled"), NullHref, FALSE, NullText, "none")
Rel10Card == Card(TRUE, PaddedText("Road works"), RelHref("/posting/10"),
                  TRUE, Text("Paving"), "none")
Abs10Card == Card(TRUE, Text("Road works"), AbsHref(URL.origin, "/posting/10"),
                  TRUE, PaddedText("Paving"), "none")
Rel11Card == Card(TRUE, Text("Bridge"), RelHref("/posting/11"),
                  FALSE, NullText, "none")
Fail11Card == Card(TRUE, Text("Bridge"), RelHref("/posting/11"),
                   TRUE, Text("Deck"), "desc")

Cards == {NoLinkCard, EmptyHrefCard, Rel10Card, Abs10Card, Rel11Card, Fail11Card}
\* what qsa_all_shadow(CSS_RESULTS_SEL) can return
Pages == UNION {[1..n -> Cards] : n \in 0..MaxCards}

(* --------------------------- fingerprints ------------------------------ *)
\* what JS_GET_FIRST_RESULT_FP can hand back for the title and for the href
FpRaw == {<<None, None>>, <<"", "">>, <<"Road works", "/posting/10">>, <<"Bridge", None>>}
SENTINEL == <<"", "">>
OrEmpty(x) == IF x = None THEN "" ELSE x
\* first_result_fingerprint: (t or "", href or "")
first_result_fingerprint(raw) == <<OrEmpty(raw[1]), OrEmpty(raw[2])>>

\* one execute_script call of a poll: it raises or returns a raw fingerprint
FpCalls == {[raises |-> TRUE, raw |-> <<None, None>>]}
           \cup {[raises |-> FALSE, raw |-> r] : r \in FpRaw}
\* the calls the polls of one wait see, in order, until its timeout elapses
FpPolls == UNION {[1..n -> FpCalls] : n \in 1..MaxPolls}

\* the test of one poll as it would be without the sentinel test
PageChanged_NoSentinel(fp, prev_fp) == fp # prev_fp
\* the test of one poll of wait_for_page_change
PageChanged(fp, prev_fp) == fp # SENTINEL /\ fp # prev_fp

\* time.sleep(0.3) after a poll that saw no change
PollSleep == 3
\* from the start of one poll to the start of the next: the sleep alone when
\* execute_script answers at once, or as long as the whole timeout of a first
\* attempt when the browser is slow to answer
PollGaps == {PollSleep, WAIT_TIMEOUT + TimeoutStep}

\* the loop of wait_for_page_change from poll i on; poll i begins when
\* time.time() - t0, here (i - 1) * gap, is still below timeout.  at is when
\* the poll that saw the change began.
RECURSIVE WaitFrom(_, _, _, _, _)
WaitFrom(prev_fp, timeout, polls, gap, i) ==
    IF i > Len(polls) \/ (i - 1) * gap >= timeout
    THEN [res |-> "timeout", polls |-> i - 1, fp |-> SENTINEL, at |-> 0]
    ELSE IF polls[i].raises
    THEN [res |-> "raised", polls |-> i, fp |-> SENTINEL, at |-> 0]
    ELSE LET fp == first_result_fingerprint(polls[i].raw)
         IN  IF PageChanged(fp, prev_fp)
             THEN [res |-> "changed", polls |-> i, fp |-> fp, at |-> (i - 1) * gap]
             ELSE WaitFrom(prev_fp, timeout, polls, gap, i + 1)

\* wait_for_page_change(prev_fp, timeout): no poll is made when timeout <= 0
wait_for_page_change(prev_fp, timeout, polls, gap) ==
    WaitFrom(prev_fp, timeout, polls, gap, 1)

\* one qsa_all_shadow call of wait_for_any_result: raises, or finds n cards
AnyCalls == {[raises |-> TRUE, n |-> 0]} \cup {[raises |-> FALSE, n |-> k] : k \in 0..1}
AnyPolls == UNION {[1..n -> AnyCalls] : n \in 1..MaxPolls}

RECURSIVE AnyFrom(_, _)
AnyFrom(polls, i) ==
    IF i > Len(polls) THEN "timeout"
    ELSE IF polls[i].raises THEN "raised"
    ELSE IF polls[i].n > 0 THEN "found"
    ELSE AnyFrom(polls, i + 1)

\* wait_for_any_result(timeout)
wait_for_any_result(timeout, polls) ==
    IF timeout <= 0 THEN "timeout" ELSE AnyFrom(polls, 1)

(* ------------------------- parse_current_page -------------------------- *)
Record(title, url, desc) == [Title |-> title, URL |-> url, Description |-> desc]

\* the body of the for loop for one card: the record it appends and the URL
\* it adds to seen, or a skip (continue, or an exception caught by the
\* except clause of the loop body)
Skip == [emit |-> FALSE, rec |-> Record("", "", None)]
\* the loop body as it would be if a failing description read were caught
\* on its own and the record kept with no description
ReadCard_KeepOnDescFailure(card, seen) ==
    IF card.fail = "link" THEN Skip
    ELSE IF ~card.link THEN Skip
    ELSE IF card.fail \in {"title", "href"} THEN Skip
    ELSE LET title == StripText(card.title)
             url == StripHref(card.href)
         IN  IF UrlStr(url) = "" \/ UrlStr(url) \in seen THEN Skip
             ELSE [emit |-> TRUE,
                   rec |-> Record(title, urljoin(URL, url),
                                  IF card.descEl /\ card.fail = "none"
                                  THEN StripText(card.desc) ELSE None)]
ReadCard(card, seen) ==
    IF card.fail = "link" THEN Skip
    ELSE IF ~card.link THEN Skip
    ELSE IF card.fail \in {"title", "href"} THEN Skip
    ELSE LET title == StripText(card.title)
             url == StripHref(card.href)
         IN  IF UrlStr(url) = "" \/ UrlStr(url) \in seen THEN Skip
             ELSE IF card.fail = "desc_el" THEN Skip
             ELSE IF card.descEl /\ card.fail = "desc" THEN Skip
             ELSE [emit |-> TRUE,
                   rec |-> Record(title, urljoin(URL, url),
                                  IF card.descEl THEN StripText(card.desc) ELSE None)]

\* that loop as it would be without seen.add(url)
RECURSIVE ParseFrom_NoSeenAdd(_, _, _, _, _)
ParseFrom_NoSeenAdd(cards, idx, per_page_max, seen, out) ==
    IF idx >= Len(cards) THEN [out |-> out, seen |-> seen]
    ELSE IF Truthy(per_page_max) /\ idx >= ValueOf(per_page_max)
    THEN [out |-> out, seen |-> seen]
    ELSE LET r == ReadCard(cards[idx + 1], seen)
         IN  IF r.emit
             THEN ParseFrom_NoSeenAdd(cards, idx + 1, per_page_max,
                                      seen, Append(out, r.rec))
             ELSE ParseFrom_NoSeenAdd(cards, idx + 1, per_page_max, seen, out)
\* the loop of parse_current_page from card idx (0-based, as enumerate counts)
RECURSIVE ParseFrom(_, _, _, _, _)
ParseFrom(cards, idx, per_page_max, seen, out) ==
    IF idx >= Len(cards) THEN [out |-> out, seen |-> seen]
    ELSE IF Truthy(per_page_max) /\ idx >= ValueOf(per_page_max)
    THEN [out |-> out, seen |-> seen]
    ELSE LET r == ReadCard(cards[idx + 1], seen)
         IN  IF r.emit
             THEN ParseFrom(cards, idx + 1, per_page_max,
                            seen \cup {r.rec.URL}, Append(out, r.rec))
             ELSE ParseFrom(cards, idx + 1, per_page_max, seen, out)

\* parse_current_page(drv, per_page_max, seen): the rows and the updated seen
parse_current_page(cards, per_page_max, seen) ==
    ParseFrom(cards, 0, per_page_max, seen, <<>>)

(* ------------------------------ goto_page ------------------------------ *)
\* how the pager answers try_type_page_number: the input lookup raises,
\* finds no input, or finds one that accepts or rejects the native typing
\* and the synthetic events
TypeBehaviours ==
    [lookup : {"raises", "none"}, native : {FALSE}, synthetic : {FALSE}]
    \cup [lookup : {"found"}, native : {TRUE}, synthetic : {FALSE}]
    \cup [lookup : {"found"}, native : {FALSE}, synthetic : BOOLEAN]

\* try_type_page_number: raised, or the bool it returns
try_type_page_number(b) ==
    IF b.lookup = "raises" THEN [raised |-> TRUE, ok |-> FALSE]
    ELSE IF b.lookup = "none" THEN [raised |-> FALSE, ok |-> FALSE]
    ELSE IF b.native THEN [raised |-> FALSE, ok |-> TRUE]
    ELSE [raised |-> FALSE, ok |-> b.synthetic]

\* how one element with the page number as text answers the click: the
\* native click works, only the synthetic click works, or handling the
\* element raises (any exception of the loop body)
ClickBehaviours ==
    {[lookup |-> "raises", hits |-> <<>>]}
    \cup {[lookup |-> "found", hits |-> h] :
            h \in {<<>>, <<"native">>, <<"synthetic">>, <<"rejected">>,
                   <<"rejected", "synthetic">>, <<"rejected", "rejected">>}}

\* try_click_numeric_link: raised, or the bool it returns
try_click_numeric_link(b) ==
    IF b.lookup = "raises" THEN [raised |-> TRUE, ok |-> FALSE]
    ELSE [raised |-> FALSE,
          ok |-> \E i \in 1..Len(b.hits) : b.hits[i] # "rejected"]

\* the jitter-free part of sleep_for as it would be if attempt were not
\* counted in
BackoffBase_Flat(attempt) == BASE_RATE_LIMIT + BackoffStep
\* the jitter-free part of sleep_for: BASE_RATE_LIMIT + attempt * 1.2
BackoffBase(attempt) == BASE_RATE_LIMIT + attempt * BackoffStep
\* that timeout as it would be with attempt * 10
ChangeTimeout_Double(attempt) == WAIT_TIMEOUT + attempt * 2 * TimeoutStep
\* the timeout goto_page gives wait_for_page_change: WAIT_TIMEOUT + attempt * 5
ChangeTimeout(attempt) == WAIT_TIMEOUT + attempt * TimeoutStep

\* what one wait of goto_page can meet: the answers to its polls and their
\* pace.  No poll follows one that raised, none begins after the longest
\* timeout is over, and a single poll has no pace.
PollRuns ==
    {r \in FpPolls \X PollGaps :
        /\ \A i \in 1..(Len(r[1]) - 1) : ~r[1][i].raises
        /\ (Len(r[1]) - 1) * r[2] < ChangeTimeout(MAX_RETRIES_PER_PAGE)
        /\ Len(r[1]) = 1 => r[2] = PollSleep}


(* ------------------------------- state --------------------------------- *)
VARIABLES
    START_PAGE, END_PAGE, PER_PAGE_MAX, LONG_PAUSE_EVERY,
    pc,             \* where run() is
    err,            \* the exception propagating out of run(), "none" if none
    drv,            \* run's local drv: None or "session"
    browser,        \* the browser process: "absent", "running", "quit"
    lastCall,       \* the latest call into the session: "none", "other", "quit"
    quitCalls,      \* how often drv.quit() was invoked
    seen, pages_done, total_rows, current, prev_fp,
    cooldowns,      \* how many long cooldown sleeps were made
    naps,           \* how many sleeps of SLEEP_AFTER_NAV were made
    flushed,        \* lines this run appended that reached the file
    buffered,       \* lines written to the file object, not yet flushed
    bufferedPages,  \* the pages the lines of buffered came from
    rows,           \* what the latest parse_current_page returned
    cards,          \* parse_current_page on its own: the cards it read
    seenAtEntry,    \* parse_current_page on its own: seen when it was entered
    target, attempt,
    caller,         \* who called goto_page: "none", "jump", "advance"
    gotoResult,     \* "none" while running, "returned", or the exception raised
    sleeps,         \* the jitter-free backoff sleeps of this goto_page call
    stratA,         \* Strategy A in this attempt: "untried", "raised",
                    \* "no_input", "performed", "rejected"
    stratB,         \* Strategy B in this attempt: "untried", "raised",
                    \* "clicked", "not_clicked"
    waitRes,        \* wait_for_page_change in this attempt: "none", "changed",
                    \* "timeout", "raised"
    lastFp,         \* the fingerprint of the poll that ended that wait
    lastAt,         \* when that poll began, counted from the start of the wait
    shownBefore     \* what the page showed when the attempt that confirmed
                    \* began (the code never reads it)

cfgVars == <<START_PAGE, END_PAGE, PER_PAGE_MAX, LONG_PAUSE_EVERY>>
sessVars == <<drv, browser, lastCall, quitCalls>>
runVars == <<seen, pages_done, total_rows, current, prev_fp, cooldowns, naps>>
outVars == <<flushed, buffered, bufferedPages>>
pageVars == <<rows, cards, seenAtEntry>>
gotoVars == <<target, attempt, caller, gotoResult, sleeps, stratA, stratB,
              waitRes, lastFp, lastAt, shownBefore>>
vars == <<cfgVars, pc, err, sessVars, runVars, outVars, pageVars, gotoVars>>

\* the locals of run() before its try: drv = None, seen = set(),
\* pages_done = total_rows = 0; nothing of goto_page or the file exists yet
Locals ==
    /\ err = "none"
    /\ drv = None /\ browser = "absent" /\ lastCall = "none" /\ quitCalls = 0
    /\ pages_done = 0 /\ total_rows = 0
    /\ current = 0 /\ prev_fp = SENTINEL /\ cooldowns = 0 /\ naps = 0
    /\ flushed = <<>> /\ buffered = <<>> /\ bufferedPages = {}
    /\ rows = <<>>
    /\ target = 0 /\ attempt = 0 /\ caller = "none" /\ gotoResult = "none"
    /\ sleeps = <<>> /\ stratA = "untried" /\ stratB = "untried"
    /\ waitRes = "none" /\ lastFp = SENTINEL /\ lastAt = 0
    /\ shownBefore = SENTINEL

Init ==
    /\ START_PAGE \in StartPageChoices
    /\ END_PAGE \in EndPageChoices
    /\ PER_PAGE_MAX \in PerPageMaxChoices
    /\ LONG_PAUSE_EVERY \in LongPauseChoices
    /\ pc = "setup"
    /\ seen = {} /\ cards = <<>> /\ seenAtEntry = {}
    /\ Locals

\* an exception leaves the try block of run(): the finally clause is next
Propagate(e) == pc' = "finally" /\ err' = e
\* the same from inside the with block: the file is closed on the way out,
\* which flushes what was written
PropagateFromWith(e) ==
    /\ Propagate(e)
    /\ flushed' = flushed \o buffered /\ buffered' = <<>> /\ bufferedPages' = {}

\* drv = setup_driver(): installing or starting the browser fails, or
\* set_page_load_timeout raises after the browser started, or the session
\* is returned
SetupDriver ==
    /\ pc = "setup"
    /\ \E outcome \in {"start_failed", "configure_failed", "ok"} :
        \/ /\ outcome = "start_failed"
           /\ Propagate("WebDriverException")
           /\ UNCHANGED sessVars
        \/ /\ outcome = "configure_failed"
           /\ Propagate("WebDriverException")
           /\ browser' = "running" /\ lastCall' = "other"
           /\ UNCHANGED <<drv, quitCalls>>
        \/ /\ outcome = "ok"
           /\ drv' = "session" /\ browser' = "running" /\ lastCall' = "other"
           /\ pc' = "get"
           /\ UNCHANGED <<err, quitCalls>>
    /\ UNCHANGED <<cfgVars, runVars, outVars, pageVars, gotoVars>>

\* drv.get(URL)
OpenSeed ==
    /\ pc = "get"
    /\ lastCall' = "other"
    /\ \E raises \in BOOLEAN :
        IF raises THEN Propagate("WebDriverException")
        ELSE pc' = "wait_any" /\ UNCHANGED err
    /\ UNCHANGED <<cfgVars, drv, browser, quitCalls,
                   runVars, outVars, pageVars, gotoVars>>

\* the initial wait as it would be if run reloaded the seed page after a
\* timeout and waited again
WaitForAnyResult_Retry ==
    /\ pc = "wait_any"
    /\ lastCall' = "other"
    /\ \E polls \in AnyPolls :
        LET r == wait_for_any_result(WAIT_TIMEOUT, polls)
        IN  IF r = "found" THEN pc' = "init_fp" /\ UNCHANGED err
            ELSE IF r = "timeout" THEN pc' = "get" /\ UNCHANGED err
            ELSE Propagate("WebDriverException")
    /\ UNCHANGED <<cfgVars, drv, browser, quitCalls,
                   runVars, outVars, pageVars, gotoVars>>
\* wait_for_any_result(drv, WAIT_TIMEOUT): its timeout is not caught
WaitForAnyResult ==
    /\ pc = "wait_any"
    /\ lastCall' = "other"
    /\ \E polls \in AnyPolls :
        LET r == wait_for_any_result(WAIT_TIMEOUT, polls)
        IN  IF r = "found" THEN pc' = "init_fp" /\ UNCHANGED err
            ELSE IF r = "timeout" THEN Propagate("TimeoutException")
            ELSE Propagate("WebDriverException")
    /\ UNCHANGED <<cfgVars, drv, browser, quitCalls,
                   runVars, outVars, pageVars, gotoVars>>

\* an attempt of the for loop of goto_page begins
BeginAttempt(n) ==
    /\ pc' = "goto_type"
    /\ attempt' = n
    /\ stratA' = "untried" /\ stratB' = "untried"
    /\ waitRes' = "none" /\ lastFp' = SENTINEL /\ lastAt' = 0
    /\ shownBefore' = SENTINEL

\* goto_page(drv, page, fp) is entered
EnterGoto(who, page, fp) ==
    /\ caller' = who /\ target' = page /\ prev_fp' = fp
    /\ gotoResult' = "none" /\ sleeps' = <<>>
    /\ BeginAttempt(1)

\* prev_fp = first_result_fingerprint(drv); current = 1; the jump to
\* START_PAGE begins when START_PAGE > 1
InitFingerprint ==
    /\ pc = "init_fp"
    /\ lastCall' = "other"
    /\ \E call \in FpCalls :
        IF call.raises
        THEN /\ Propagate("WebDriverException")
             /\ UNCHANGED <<runVars, gotoVars>>
        ELSE /\ current' = 1
             /\ UNCHANGED <<err, seen, pages_done, total_rows, cooldowns, naps>>
             /\ IF START_PAGE > 1
                THEN EnterGoto("jump", START_PAGE, first_result_fingerprint(call.raw))
                ELSE /\ pc' = "open_out"
                     /\ prev_fp' = first_result_fingerprint(call.raw)
                     /\ UNCHANGED gotoVars
    /\ UNCHANGED <<cfgVars, drv, browser, quitCalls, outVars, pageVars>>

(* --------------------------- goto_page steps --------------------------- *)
\* goto_page returns: the wait of this attempt saw the page change
GotoReturn ==
    /\ gotoResult' = "returned"
    /\ pc' = IF caller = "jump" THEN "jumped" ELSE "advanced"
    /\ UNCHANGED <<err, outVars, attempt, sleeps>>

\* an exception e leaves goto_page.  The jump to START_PAGE (line 308) is
\* not inside a try: e leaves run().  The advance (lines 337-341) catches
\* every Exception, logs it and breaks out of the loop.
GotoRaise(e) ==
    /\ gotoResult' = e
    /\ IF caller = "jump"
       THEN Propagate(e) /\ UNCHANGED outVars
       ELSE pc' = "closing" /\ UNCHANGED <<err, outVars>>

\* a failed attempt as it would be without time.sleep(sleep_for)
FailAttempt_NoSleep ==
    /\ sleeps' = sleeps
    /\ IF attempt < MAX_RETRIES_PER_PAGE
       THEN /\ BeginAttempt(attempt + 1)
            /\ UNCHANGED <<err, outVars, gotoResult>>
       ELSE /\ GotoRaise("RuntimeError")
            /\ UNCHANGED attempt
\* lines 282-287: this attempt failed: sleep_for, the warning, the sleep,
\* the re-scroll; then the next attempt, or RuntimeError after the last one
FailAttempt ==
    /\ sleeps' = Append(sleeps, BackoffBase(attempt))
    /\ IF attempt < MAX_RETRIES_PER_PAGE
       THEN /\ BeginAttempt(attempt + 1)
            /\ UNCHANGED <<err, outVars, gotoResult>>
       ELSE /\ GotoRaise("RuntimeError")
            /\ UNCHANGED attempt

StratAOf(b, r) ==
    IF r.raised THEN "raised"
    ELSE IF b.lookup = "none" THEN "no_input"
    ELSE IF r.ok THEN "performed" ELSE "rejected"

\* ok = try_type_page_number(drv, target_page)
GotoTryType ==
    /\ pc = "goto_type"
    /\ lastCall' = "other"
    /\ \E b \in TypeBehaviours :
        LET r == try_type_page_number(b)
        IN  /\ stratA' = StratAOf(b, r)
            /\ IF r.raised
               THEN GotoRaise("WebDriverException")
               ELSE /\ pc' = IF r.ok THEN "goto_wait" ELSE "goto_click"
                    /\ UNCHANGED <<err, outVars, gotoResult>>
    /\ UNCHANGED <<cfgVars, drv, browser, quitCalls, runVars, pageVars,
                   target, attempt, caller, sleeps, stratB, waitRes, lastFp, lastAt, shownBefore>>

\* if not ok: ok = try_click_numeric_link(drv, target_page); no interaction
\* was performed when that is False too
GotoTryClick ==
    /\ pc = "goto_click"
    /\ lastCall' = "other"
    /\ \E b \in ClickBehaviours :
        LET r == try_click_numeric_link(b)
        IN  IF r.raised
            THEN /\ stratB' = "raised"
                 /\ GotoRaise("WebDriverException")
                 /\ UNCHANGED <<attempt, sleeps, stratA, waitRes, lastFp, lastAt, shownBefore>>
            ELSE IF r.ok
            THEN /\ stratB' = "clicked"
                 /\ pc' = "goto_wait"
                 /\ UNCHANGED <<err, outVars, gotoResult, attempt, sleeps,
                                stratA, waitRes, lastFp, lastAt, shownBefore>>
            ELSE IF attempt < MAX_RETRIES_PER_PAGE
            THEN FailAttempt
            ELSE /\ FailAttempt
                 /\ stratB' = "not_clicked"
                 /\ UNCHANGED <<stratA, waitRes, lastFp, lastAt, shownBefore>>
    /\ UNCHANGED <<cfgVars, drv, browser, quitCalls, runVars, pageVars,
                   target, caller>>

\* how a wait of goto_page can end: its result, and the fingerprint and the
\* beginning of the poll that saw the change
WaitOutcomes(fp, timeout) ==
    {[res |-> w.res, fp |-> w.fp, at |-> w.at] :
        w \in {wait_for_page_change(fp, timeout, run[1], run[2]) : run \in PollRuns}}

\* every value first_result_fingerprint can return
Fingerprints == {first_result_fingerprint(raw) : raw \in FpRaw}
\* what the page can have shown when an attempt began: a first attempt
\* begins right after the caller read fp off the page; before a later
\* attempt the earlier interactions and sleeps gave the page time to change
ShownAtAttempt(n, fp) == IF n = 1 THEN {fp} ELSE Fingerprints

\* if ok: wait_for_page_change(drv, prev_fp, WAIT_TIMEOUT + attempt * 5);
\* only its TimeoutException is caught
GotoWait ==
    /\ pc = "goto_wait"
    /\ lastCall' = "other"
    /\ \E r \in WaitOutcomes(prev_fp, ChangeTimeout(attempt)) :
        IF r.res = "changed"
        THEN /\ waitRes' = "changed" /\ lastFp' = r.fp /\ lastAt' = r.at
             /\ shownBefore' \in ShownAtAttempt(attempt, prev_fp)
             /\ GotoReturn
             /\ UNCHANGED <<stratA, stratB>>
        ELSE IF r.res = "raised"
        THEN /\ waitRes' = "raised" /\ lastFp' = r.fp /\ lastAt' = r.at
             /\ GotoRaise("WebDriverException")
             /\ UNCHANGED <<attempt, sleeps, stratA, stratB, shownBefore>>
        ELSE IF attempt < MAX_RETRIES_PER_PAGE
        THEN FailAttempt
        ELSE /\ FailAttempt
             /\ waitRes' = "timeout" /\ lastFp' = r.fp /\ lastAt' = r.at
             /\ UNCHANGED <<stratA, stratB, shownBefore>>
    /\ UNCHANGED <<cfgVars, drv, browser, quitCalls, runVars, pageVars,
                   target, caller>>

RECURSIVE SumSeq(_)
SumSeq(q) == IF q = <<>> THEN 0 ELSE Head(q) + SumSeq(Tail(q))
\* the least time the goto_page call has taken so far: time.sleep(sleep_for)
\* lasts at least sleep_for, and sleep_for is at least its jitter-free part
Elapsed == SumSeq(sleeps)

\* the frame of goto_page is gone once its caller went on
LeaveGoto ==
    /\ target' = 0 /\ attempt' = 0 /\ caller' = "none" /\ gotoResult' = "none"
    /\ sleeps' = <<>> /\ stratA' = "untried" /\ stratB' = "untried"
    /\ waitRes' = "none" /\ lastFp' = SENTINEL /\ lastAt' = 0
    /\ shownBefore' = SENTINEL

\* after the jump: time.sleep(SLEEP_AFTER_NAV); current = START_PAGE
AfterJump ==
    /\ pc = "jumped"
    /\ naps' = naps + 1
    /\ current' = START_PAGE
    /\ pc' = "open_out"
    /\ LeaveGoto
    /\ UNCHANGED <<cfgVars, err, sessVars, seen, pages_done, total_rows, prev_fp,
                   cooldowns, outVars, pageVars>>


(* ------------------------------ run loop ------------------------------- *)
\* with OUT_PATH.open("a", encoding="utf-8") as out
OpenOut ==
    /\ pc = "open_out"
    /\ \E raises \in BOOLEAN :
        IF raises THEN Propagate("OSError")
        ELSE pc' = "scrape" /\ UNCHANGED err
    /\ UNCHANGED <<cfgVars, sessVars, runVars, outVars, pageVars, gotoVars>>

\* one page of the loop, lines 314-326: the lazy-load scrolling (its errors
\* are ignored), rows = parse_current_page(drv, PER_PAGE_MAX, seen), and
\* out.write for each row.  qsa_all_shadow may raise before any card is
\* read; a write may raise after the rows before it were written.
ScrapePage ==
    /\ pc = "scrape"
    /\ lastCall' = "other"
    /\ \/ /\ PropagateFromWith("WebDriverException")
          /\ UNCHANGED <<seen, rows>>
       \/ \E page \in Pages :
            LET r == parse_current_page(page, PER_PAGE_MAX, seen)
            IN  /\ seen' = r.seen
                /\ rows' = r.out
                /\ \E written \in 0..Len(r.out) :
                    IF written = Len(r.out)
                    THEN /\ buffered' = buffered \o r.out
                         /\ bufferedPages' = IF r.out = <<>> THEN bufferedPages
                                             ELSE bufferedPages \cup {current}
                         /\ pc' = "flush"
                         /\ UNCHANGED <<err, flushed>>
                    ELSE /\ Propagate("OSError")
                         /\ flushed' = flushed \o buffered \o SubSeq(r.out, 1, written)
                         /\ buffered' = <<>> /\ bufferedPages' = {}
    /\ UNCHANGED <<cfgVars, drv, browser, quitCalls, pages_done, total_rows,
                   current, prev_fp, cooldowns, naps, cards, seenAtEntry, gotoVars>>

\* out.flush() as it would be if it did nothing
FlushedAfter_NoFlush(f, b) == f
\* out.flush(): what has reached the file afterwards
FlushedAfter(f, b) == f \o b
\* out.flush(): what is left in the file object afterwards
BufferedAfter(f, b) == SubSeq(f \o b, Len(FlushedAfter(f, b)) + 1, Len(f \o b))

\* the end-page test as it would be if it were never met
EndReached_Never(end_page, page) == FALSE
\* the end-page test as it would be with > in place of >=
EndReached_Strict(end_page, page) == end_page # NoneInt /\ page > ValueOf(end_page)
\* line 332: if END_PAGE is not None and current >= END_PAGE: break
EndReached(end_page, page) == end_page # NoneInt /\ page >= ValueOf(end_page)

\* lines 327-333: out.flush(), the counters, the log line, the end-page test
FlushPage ==
    /\ pc = "flush"
    /\ \/ \* flush raises; closing the file may or may not get the lines out
          /\ Propagate("OSError")
          /\ \E lost \in BOOLEAN :
                flushed' = IF lost THEN flushed ELSE flushed \o buffered
          /\ buffered' = <<>> /\ bufferedPages' = {}
          /\ UNCHANGED <<pages_done, total_rows>>
       \/ /\ flushed' = FlushedAfter(flushed, buffered)
          /\ buffered' = BufferedAfter(flushed, buffered)
          /\ bufferedPages' = IF BufferedAfter(flushed, buffered) = <<>>
                              THEN {} ELSE bufferedPages
          /\ total_rows' = total_rows + Len(rows)
          /\ pages_done' = pages_done + 1
          /\ pc' = IF EndReached(END_PAGE, current) THEN "closing" ELSE "capture_fp"
          /\ UNCHANGED err
    /\ UNCHANGED <<cfgVars, sessVars, seen, current, prev_fp, cooldowns, naps,
                   pageVars, gotoVars>>

\* lines 335-338: prev_fp = first_result_fingerprint(drv) (outside the try
\* of the advance), target = current + 1, and goto_page is entered
CaptureFingerprint ==
    /\ pc = "capture_fp"
    /\ current < MaxPage
    /\ lastCall' = "other"
    /\ \E call \in FpCalls :
        IF call.raises
        THEN /\ PropagateFromWith("WebDriverException")
             /\ UNCHANGED <<prev_fp, gotoVars>>
        ELSE /\ EnterGoto("advance", current + 1, first_result_fingerprint(call.raw))
             /\ UNCHANGED <<err, outVars>>
    /\ UNCHANGED <<cfgVars, drv, browser, quitCalls, seen, pages_done,
                   total_rows, current, cooldowns, naps, pageVars>>

\* the cooldown test as it would be if it were always met
CooldownDue_Always(done, every) == TRUE
\* line 346: if pages_done % LONG_PAUSE_EVERY == 0
CooldownDue(done, every) == done % every = 0

\* those lines as they would be without current = target
AfterAdvance_KeepPage ==
    /\ pc = "advanced"
    /\ naps' = naps + 1
    /\ current' = current
    /\ cooldowns' = IF CooldownDue(pages_done, LONG_PAUSE_EVERY)
                    THEN cooldowns + 1 ELSE cooldowns
    /\ pc' = "scrape"
    /\ LeaveGoto
    /\ UNCHANGED <<cfgVars, err, sessVars, seen, pages_done, total_rows, prev_fp,
                   outVars, pageVars>>
\* lines 343-348: the politeness sleep, current = target, and the long
\* cooldown when pages_done is a multiple of LONG_PAUSE_EVERY
AfterAdvance ==
    /\ pc = "advanced"
    /\ naps' = naps + 1
    /\ current' = target
    /\ cooldowns' = IF CooldownDue(pages_done, LONG_PAUSE_EVERY)
                    THEN cooldowns + 1 ELSE cooldowns
    /\ pc' = "scrape"
    /\ LeaveGoto
    /\ UNCHANGED <<cfgVars, err, sessVars, seen, pages_done, total_rows, prev_fp,
                   outVars, pageVars>>

\* the loop was left by break: the with block closes the file, line 350 logs
CloseOut ==
    /\ pc = "closing"
    /\ flushed' = flushed \o buffered /\ buffered' = <<>> /\ bufferedPages' = {}
    /\ pc' = "finally"
    /\ UNCHANGED <<cfgVars, err, sessVars, runVars, pageVars, gotoVars>>

\* the teardown as it would be after the loop instead of in a finally clause
Finally_OnSuccessOnly ==
    /\ pc = "finally"
    /\ IF drv # None /\ err = "none"
       THEN /\ quitCalls' = quitCalls + 1 /\ lastCall' = "quit"
            /\ \E raises \in BOOLEAN : browser' = IF raises THEN "running" ELSE "quit"
       ELSE UNCHANGED <<browser, lastCall, quitCalls>>
    /\ pc' = "done"
    /\ UNCHANGED <<cfgVars, err, drv, runVars, outVars, pageVars, gotoVars>>

\* finally: if drv: try: drv.quit() except Exception: pass.  What quit
\* raises is dropped; the exception that was propagating, if any, goes on
\* out of run().
Finally ==
    /\ pc = "finally"
    /\ IF drv # None
       THEN /\ quitCalls' = quitCalls + 1 /\ lastCall' = "quit"
            /\ \E raises \in BOOLEAN : browser' = IF raises THEN "running" ELSE "quit"
       ELSE UNCHANGED <<browser, lastCall, quitCalls>>
    /\ pc' = "done"
    /\ UNCHANGED <<cfgVars, err, drv, runVars, outVars, pageVars, gotoVars>>

Next ==
    \/ SetupDriver \/ OpenSeed \/ WaitForAnyResult \/ InitFingerprint
    \/ GotoTryType \/ GotoTryClick \/ GotoWait \/ AfterJump
    \/ OpenOut \/ ScrapePage \/ FlushPage \/ CaptureFingerprint \/ AfterAdvance
    \/ CloseOut \/ Finally

Spec == Init /\ [][Next]_vars

\* the runs with END_PAGE set.  run() is one thread and every call it makes
\* comes back (returns or raises), so the step it is at is taken.
LiveInit == Init /\ END_PAGE # NoneInt
LiveSpec == LiveInit /\ [][Next]_vars /\ WF_vars(Next)

(* ------------------- parse_current_page on its own --------------------- *)
\* the URLs urljoin(URL, ...) can have put into seen
SeenUrls == {urljoin(URL, StripHref(c.href)) : c \in {Rel10Card, Rel11Card}}

\* a call of parse_current_page(drv, per_page_max, seen) about to be made on
\* any rendered cards, any cap and any seen set of an earlier extraction
ParseInit ==
    /\ START_PAGE = 1 /\ END_PAGE = Some(1) /\ LONG_PAUSE_EVERY = 25
    /\ PER_PAGE_MAX \in CapChoices
    /\ pc = "parse"
    /\ seen \in SUBSET SeenUrls
    /\ cards \in Pages
    /\ seenAtEntry = seen
    /\ Locals

ParseCall ==
    /\ pc = "parse"
    /\ LET r == parse_current_page(cards, PER_PAGE_MAX, seen)
       IN  rows' = r.out /\ seen' = r.seen
    /\ pc' = "parsed"
    /\ UNCHANGED <<cfgVars, err, sessVars, pages_done, total_rows, current, prev_fp,
                   cooldowns, naps, outVars, cards, seenAtEntry, gotoVars>>

ParseNext == ParseCall

ParseSpec == ParseInit /\ [][ParseNext]_vars


(* ------------------------------- claims -------------------------------- *)
Written == flushed \o buffered
InGoto == pc \in {"goto_type", "goto_click", "goto_wait"}

\* C1: no two records written to the output in one run have the same URL.
C1_NoDuplicateUrl ==
    \A i, j \in 1..Len(Written) : i # j => Written[i].URL # Written[j].URL

\* C2: goto_page raises its navigation-failure error exactly when all
\* MAX_RETRIES_PER_PAGE attempts were made and failed: it raises nothing
\* before the last attempt has failed, and it does not return normally
\* without a confirmed attempt.
C2_RetryBound ==
    /\ gotoResult \notin {"none", "returned"}
          => gotoResult = "RuntimeError" /\ Len(sleeps) = MAX_RETRIES_PER_PAGE
    /\ gotoResult = "returned"
          => waitRes = "changed" /\ Len(sleeps) < MAX_RETRIES_PER_PAGE
    /\ (gotoResult = "none" /\ InGoto) => Len(sleeps) = attempt - 1

\* C3: wait_for_page_change reports success only on a poll whose fingerprint
\* is not the sentinel ("", "") and differs from prev_fp.
C3_SentinelNeverConfirms ==
    waitRes = "changed" => lastFp # SENTINEL /\ lastFp # prev_fp

\* a wait that succeeded against a non-sentinel previous fingerprint
C3_Witness ==
    waitRes = "changed" /\ prev_fp # SENTINEL /\ gotoResult = "returned"

\* C4: when a goto_page call of run exhausts its retries, in the jump to
\* START_PAGE or in an advance, run goes on to its end without extracting or
\* navigating again and without an exception leaving it.
C4_ExhaustionEndsRunNormally ==
    gotoResult = "RuntimeError"
        => err = "none" /\ pc \in {"closing", "finally", "done"}

\* C5: with a cap k (any per_page_max other than None) parse_current_page
\* returns at most k records.
C5_CapBoundsRows ==
    (pc = "parsed" /\ PER_PAGE_MAX # NoneInt) => Len(rows) <= ValueOf(PER_PAGE_MAX)

\* C6: the jitter-free backoff sleep of a later attempt of one goto_page
\* call is strictly greater than that of an earlier attempt.
C6_BackoffMonotone ==
    \A a1, a2 \in 1..Len(sleeps) : a1 < a2 => sleeps[a1] < sleeps[a2]

\* a goto_page call all of whose attempts failed and slept
C6_Witness == Len(sleeps) = MAX_RETRIES_PER_PAGE

\* what the extraction is to return for the cards from index i on: one
\* record, in card order, for each of the first cap cards with a link and a
\* non-empty target whose absolute URL is not in urls (seen on entry plus
\* the URLs of the earlier cards' records); a card that cannot be read
\* counts as a card without link
RECURSIVE ExpectedRows(_, _, _, _)
ExpectedRows(cs, i, cap, urls) ==
    IF i > Len(cs) \/ (cap # NoneInt /\ i > ValueOf(cap)) THEN <<>>
    ELSE LET c == cs[i]
             ref == StripHref(c.href)
             abs == urljoin(URL, ref)
         IN  IF c.link /\ c.fail = "none" /\ UrlStr(ref) # "" /\ abs \notin urls
             THEN <<Record(StripText(c.title), abs,
                           IF c.descEl THEN StripText(c.desc) ELSE None)>>
                  \o ExpectedRows(cs, i + 1, cap, urls \cup {abs})
             ELSE ExpectedRows(cs, i + 1, cap, urls)

\* C7: parse_current_page returns exactly the records of the cards among the
\* first cap cards whose absolute URL is new (not in seen on entry, not of
\* an earlier card of the page), in card order; a re-rendered card that was
\* emitted before yields nothing.
C7_ExactRows ==
    pc = "parsed" => rows = ExpectedRows(cards, 1, PER_PAGE_MAX, seenAtEntry)

\* C8: a card whose reading fails is skipped and nothing else changes: the
\* rows and the seen set are those of the same page with that card replaced
\* by a card without link, so no error leaves parse_current_page, the failing
\* card gives no record and no seen entry, and the other cards give theirs.
C8_FailingCardOnlySkipped ==
    pc = "parsed" =>
        \A i \in 1..Len(cards) :
            cards[i].fail # "none" =>
                LET r == parse_current_page([cards EXCEPT ![i] = NoLinkCard],
                                            PER_PAGE_MAX, seenAtEntry)
                IN  /\ rows = r.out /\ seen = r.seen
                    /\ \A k \in 1..Len(rows) :
                          rows[k].Description # StripText(cards[i].desc)

\* a page whose first card fails to read and whose later card is emitted
C8_Witness ==
    /\ pc = "parsed" /\ Len(cards) >= 2
    /\ cards[1].fail # "none" /\ Len(rows) >= 1

\* C9: when a navigation toward the next page begins and while it lasts,
\* every record extracted so far has been flushed; the unflushed records
\* never come from more than one page.
C9_FlushedBeforeNavigation ==
    /\ (InGoto /\ caller = "advance")
          => buffered = <<>> /\ Len(flushed) = total_rows
    /\ Cardinality(bufferedPages) <= 1
    /\ buffered # <<>> => bufferedPages = {current}

\* an advance under way after a page that gave records
C9_Witness == pc = "goto_wait" /\ caller = "advance" /\ Len(flushed) >= 2

\* C10: a run that holds the session invokes quit exactly once, as the last
\* call into the session, however it ends; what quit raises does not change
\* the exception (or its absence) run ends with.
C10_QuitOnceAndLast ==
    /\ [](/\ quitCalls <= 1
          /\ (pc = "done" /\ drv # None) => quitCalls = 1 /\ lastCall = "quit"
          /\ quitCalls = 1 => pc = "done" /\ lastCall = "quit")
    /\ [][pc = "finally" => err' = err]_vars

\* a run that failed in the initial wait and whose quit raised as well
C10_Witness ==
    /\ pc = "done" /\ err = "TimeoutException"
    /\ quitCalls = 1 /\ browser = "running"


\* a page of cards that all have a link that can be read, with non-empty
\* targets whose absolute URLs differ from card to card
DistinctLinked(page) ==
    /\ \A i \in 1..Len(page) :
          /\ page[i].link /\ page[i].fail = "none"
          /\ UrlStr(StripHref(page[i].href)) # ""
    /\ \A i, j \in 1..Len(page) :
          i # j => urljoin(URL, StripHref(page[i].href))
                      # urljoin(URL, StripHref(page[j].href))
Ended == pc \in {"closing", "finally", "done"}

\* C11: with END_PAGE set, the page whose flush finds current >= END_PAGE is
\* the last: the loop is left right after it and, once left, neither
\* extraction nor goto_page follows.  With START_PAGE = 1, END_PAGE = 1 and
\* no per-page cap, goto_page is never entered, every seed page of n
\* readable cards with distinct non-empty link URLs gives n rows, and a run
\* that ends without error has written exactly those rows.
C11_StopsAtEndPage ==
    /\ [][(pc = "flush" /\ pc' # "finally" /\ EndReached(END_PAGE, current))
              => pc' = "closing"]_vars
    /\ [][Ended => Ended']_vars
    /\ []((START_PAGE = 1 /\ END_PAGE = Some(1))
              => /\ ~InGoto /\ caller = "none" /\ current <= 1
                 /\ (pc = "done" /\ err = "none") => flushed = rows /\ buffered = <<>>)
    /\ [][(START_PAGE = 1 /\ END_PAGE = Some(1) /\ PER_PAGE_MAX = NoneInt
              /\ pc = "scrape" /\ pc' = "flush")
              => \A page \in Pages :
                    (/\ DistinctLinked(page)
                     /\ rows' = parse_current_page(page, PER_PAGE_MAX, seen).out
                     /\ seen' = parse_current_page(page, PER_PAGE_MAX, seen).seen)
                        => /\ Len(rows') = Len(page)
                           /\ buffered' = rows'
                           /\ \A i \in 1..Len(page) :
                                 rows'[i].URL = urljoin(URL, StripHref(page[i].href))]_vars

\* a run over page 1 only whose seed page had two such cards
C11_Witness ==
    /\ pc = "done" /\ err = "none" /\ START_PAGE = 1 /\ END_PAGE = Some(1)
    /\ PER_PAGE_MAX = NoneInt /\ Len(flushed) = 2 /\ pages_done = 1
    /\ flushed[1].URL # flushed[2].URL


\* the jitter-free backoff sleeps due after attempts 1..k-1
RECURSIVE BackoffDue(_)
BackoffDue(k) ==
    IF k <= 1 THEN 0
    ELSE BackoffDue(k - 1) + BASE_RATE_LIMIT + (k - 1) * BackoffStep

\* C12: an attempt is followed by the next one only after it failed and
\* slept; the attempt k whose wait sees a fingerprint that is not the
\* sentinel and differs from prev_fp makes goto_page return at once, in that
\* attempt, and by then k - 1 backoff sleeps were made and the call has
\* lasted at least their sum.
C12_ConfirmOnAttemptK ==
    /\ [][(pc = "goto_wait" /\ waitRes' = "changed")
              => /\ gotoResult' = "returned" /\ pc' \in {"jumped", "advanced"}
                 /\ attempt' = attempt /\ sleeps' = sleeps]_vars
    /\ [][(InGoto /\ attempt' # attempt)
              => /\ InGoto' /\ attempt' = attempt + 1
                 /\ Len(sleeps') = attempt]_vars
    /\ [](gotoResult = "returned"
              => /\ attempt \in 1..MAX_RETRIES_PER_PAGE
                 /\ Len(sleeps) = attempt - 1
                 /\ Elapsed >= BackoffDue(attempt))

\* goto_page returned in its last attempt, after four failed ones
C12_Witness ==
    /\ gotoResult = "returned" /\ attempt = MAX_RETRIES_PER_PAGE
    /\ Len(sleeps) = MAX_RETRIES_PER_PAGE - 1 /\ waitRes = "changed"


\* C13: in an attempt of goto_page Strategy B is tried exactly when
\* Strategy A found no page-number input: it is the next call after A found
\* none, and it is neither about to be called nor was called in an attempt
\* in which A found an input, whatever became of the typing.
C13_BOnlyWithoutInput ==
    /\ (pc = "goto_click" \/ stratB # "untried") => stratA = "no_input"
    /\ (InGoto /\ stratA = "no_input") => (pc = "goto_click" \/ stratB # "untried")


\* C14: goto_page returns only out of the wait of an attempt n, which is
\* entered only after Strategy A or Strategy B reported an interaction, and
\* only on a poll that began less than WAIT_TIMEOUT + 5 n seconds after
\* the wait began and saw a fingerprint that is not the sentinel and differs
\* from prev_fp; an attempt without interaction has no wait.
C14_ConfirmNeedsInteractionAndChange ==
    /\ [](pc = "goto_wait" => (stratA = "performed" \/ stratB = "clicked"))
    /\ [][(gotoResult # "returned" /\ gotoResult' = "returned")
              => pc = "goto_wait" /\ attempt' = attempt]_vars
    /\ [](gotoResult = "returned"
              => /\ attempt \in 1..MAX_RETRIES_PER_PAGE
                 /\ stratA = "performed" \/ stratB = "clicked"
                 /\ waitRes = "changed"
                 /\ lastFp # SENTINEL /\ lastFp # prev_fp
                 /\ lastAt < WAIT_TIMEOUT + 50 * attempt)

\* a second attempt confirmed after a click, on a poll that began later than
\* the timeout of a first attempt would have allowed
C14_Witness ==
    /\ gotoResult = "returned" /\ attempt = 2 /\ stratB = "clicked"
    /\ lastAt >= WAIT_TIMEOUT + 50


\* C15: the fingerprint that confirms attempt n is a change since attempt n
\* began: it differs from what the page showed when that attempt began, so
\* content that changed during an earlier attempt or its backoff sleep does
\* not confirm a later attempt.
C15_ChangeSinceAttemptBegan ==
    gotoResult = "returned" => lastFp # shownBefore


\* C16: the initial wait is made once; its timeout leaves run as
\* TimeoutException, and a run that ends with it has extracted nothing,
\* entered goto_page never and written no record.  A timeout of the wait in
\* goto_page never leaves goto_page: the attempt sleeps its backoff and the
\* next attempt begins, or, after the last attempt, RuntimeError is raised.
C16_InitialTimeoutFatal ==
    /\ [][pc = "wait_any"
              => \/ pc' = "init_fp" /\ err' = "none"
                 \/ pc' = "finally"
                       /\ err' \in {"TimeoutException", "WebDriverException"}]_vars
    /\ [][err = "TimeoutException" => err' = "TimeoutException"]_vars
    /\ [](err = "TimeoutException"
              => /\ pc \in {"finally", "done"}
                 /\ Written = <<>> /\ rows = <<>> /\ seen = {}
                 /\ pages_done = 0 /\ total_rows = 0 /\ current = 0
                 /\ caller = "none" /\ attempt = 0 /\ gotoResult = "none")
    /\ [][pc = "goto_wait"
              => /\ err' # "TimeoutException" /\ gotoResult' # "TimeoutException"
                 /\ gotoResult' = "none"
                       => /\ pc' = "goto_type" /\ attempt < MAX_RETRIES_PER_PAGE
                          /\ attempt' = attempt + 1
                          /\ Len(sleeps') = Len(sleeps) + 1]_vars
    /\ [](waitRes = "timeout"
              => /\ gotoResult = "RuntimeError" /\ attempt = MAX_RETRIES_PER_PAGE
                 /\ err # "TimeoutException")

\* a run ended by the timeout of the initial wait, its browser quit
C16_Witness ==
    /\ pc = "done" /\ err = "TimeoutException"
    /\ browser = "quit" /\ flushed = <<>> /\ current = 0


InLoop == pc \in {"scrape", "flush", "capture_fp", "goto_type", "goto_click",
                  "goto_wait", "advanced"} /\ caller # "jump"
\* max(1, END_PAGE - START_PAGE + 1)
PagesDue == IF ValueOf(END_PAGE) - START_PAGE + 1 > 1
            THEN ValueOf(END_PAGE) - START_PAGE + 1 ELSE 1

\* C17: with END_PAGE set, run comes to its end whatever the page does;
\* every goto_page call makes at most MAX_RETRIES_PER_PAGE attempts, each
\* with a wait bounded by its timeout; at most max(1, END_PAGE - START_PAGE
\* + 1) pages are extracted; and, when no exception leaves the loop, the
\* loop is left only after the page that reached END_PAGE or by a goto_page
\* call that failed.
C17_Terminates ==
    /\ <>(pc = "done")
    /\ [](/\ attempt <= MAX_RETRIES_PER_PAGE /\ Len(sleeps) <= MAX_RETRIES_PER_PAGE
          /\ lastAt < WAIT_TIMEOUT + 50 * MAX_RETRIES_PER_PAGE
          /\ pages_done <= PagesDue)
    /\ [][(InLoop /\ ~InLoop' /\ err' = "none")
              => /\ pc' = "closing"
                 /\ \/ pc = "flush" /\ current >= ValueOf(END_PAGE)
                    \/ /\ InGoto /\ caller = "advance"
                       /\ gotoResult' \notin {"none", "returned"}]_vars

\* a run from page 1 to END_PAGE = 2 that extracted both pages and ended
C17_Witness ==
    /\ pc = "done" /\ err = "none" /\ START_PAGE = 1 /\ END_PAGE = Some(2)
    /\ pages_done = 2 /\ current = 2


\* the advances to a next page that have been completed
Advances == IF current > START_PAGE THEN current - START_PAGE ELSE 0

\* C18: a long cooldown is slept exactly in the step after a goto_page to
\* the next page returned in which pages_done is a positive multiple of
\* LONG_PAUSE_EVERY, so the cooldowns made are as many as the advances k
\* with k a multiple of LONG_PAUSE_EVERY; there is none after the jump to
\* START_PAGE, after the last page or after a goto_page that failed; and
\* SLEEP_AFTER_NAV is slept once after every goto_page that returned.
C18_CooldownEveryN ==
    /\ [][cooldowns' # cooldowns
              => /\ pc = "advanced" /\ gotoResult = "returned" /\ caller = "advance"
                 /\ cooldowns' = cooldowns + 1
                 /\ pages_done > 0 /\ pages_done % LONG_PAUSE_EVERY = 0]_vars
    /\ [][(pc = "advanced" /\ pc' # "advanced"
              /\ pages_done > 0 /\ pages_done % LONG_PAUSE_EVERY = 0)
              => cooldowns' = cooldowns + 1]_vars
    /\ [][(gotoResult = "returned" /\ gotoResult' # "returned")
              <=> naps' = naps + 1]_vars
    /\ [][naps' = naps \/ naps' = naps + 1]_vars
    /\ [](cooldowns = Cardinality({k \in 1..Advances : k % LONG_PAUSE_EVERY = 0}))

\* a run that advanced to page 2 and cooled down for LONG_PAUSE_EVERY = 1
C18_Witness ==
    /\ LONG_PAUSE_EVERY = 1 /\ cooldowns = 1 /\ naps >= 1
    /\ current = 2 /\ pc = "scrape"


UrlsOf(recs) == {recs[i].URL : i \in 1..Len(recs)}

\* C19: seen is the set of the URLs of the records the extractions of the
\* run have returned so far, which are the records written unless a write
\* failed: it is empty before the first extraction, it never loses a URL,
\* an extraction adds the URLs of the records it returns and nothing else,
\* and no other step (goto_page and the waits among them) changes seen,
\* and goto_page and the waits leave the output as it is.
C19_SeenIsEmittedUrls ==
    /\ [](seen = UrlsOf(Written) \cup UrlsOf(rows))
    /\ [](err # "OSError" => seen = UrlsOf(Written))
    /\ [](pc \in {"setup", "get", "wait_any", "init_fp", "open_out"} => seen = {})
    /\ [][seen \subseteq seen']_vars
    /\ [][IF pc = "scrape" /\ pc' # "scrape"
          THEN seen' = seen \cup UrlsOf(rows')
          ELSE seen' = seen /\ rows' = rows]_vars
    /\ [][(InGoto \/ pc = "wait_any")
              => flushed' = flushed /\ buffered' = buffered]_vars

\* between the extractions of page 1 and page 2, after two records
C19_Witness ==
    /\ pc = "goto_wait" /\ caller = "advance" /\ attempt = 2
    /\ Cardinality(seen) = 2 /\ Len(flushed) = 2


GotoFailed == gotoResult \notin {"none", "returned"}

\* C20: the first extraction is of page START_PAGE and each later one is of
\* the page after the one before: every extraction finds pages_done =
\* current - START_PAGE, and between two extractions current grows by
\* exactly 1, in the step after goto_page(current + 1) returned.  Before the
\* first extraction current is set to 1 and, after the jump returned, to
\* START_PAGE.  A goto_page that failed leaves current as it is and no
\* extraction follows it.
C20_ConsecutivePages ==
    /\ [](pc \in {"scrape", "flush"}
              => current >= START_PAGE /\ pages_done = current - START_PAGE)
    /\ [][current' # current
              => \/ pc = "init_fp" /\ current' = 1
                 \/ /\ pc = "jumped" /\ gotoResult = "returned"
                    /\ target = START_PAGE /\ current' = START_PAGE
                    /\ pages_done = 0
                 \/ /\ pc = "advanced" /\ gotoResult = "returned"
                    /\ target = current + 1 /\ current' = current + 1]_vars
    /\ [][(pc # "scrape" /\ pc' = "scrape")
              => \/ pc = "open_out" /\ current' = START_PAGE /\ pages_done' = 0
                 \/ pc = "advanced" /\ current' = current + 1]_vars
    /\ [](GotoFailed => pc \in {"closing", "finally", "done"})
    /\ [][(GotoFailed \/ GotoFailed')
              => /\ current' = current /\ pages_done' = pages_done
                 /\ rows' = rows /\ seen' = seen]_vars

\* page 2 extracted after page 1 in a run that began at page 1
C20_Witness ==
    /\ pc = "flush" /\ START_PAGE = 1 /\ current = 2 /\ pages_done = 1
    /\ Len(rows) >= 1

====
